---------------------------- MODULE Spec2Model ----------------------------
(***************************************************************************)
(* A model of the vector-embeddings retrieval demo: the in-memory          *)
(* VectorStore (src/embeddings.js, second half), the metric library and    *)
(* the embedder (src/embeddings.js, first half) and the HTTP handlers of   *)
(* src/server.js that drive them.                                          *)
(*                                                                         *)
(* JavaScript is single threaded and every method of the store runs to     *)
(* completion, so each method call (or request handler) is one action.     *)
(* The value a call returns, or the error it throws, is kept in ret.       *)
(*                                                                         *)
(* Numbers.  A finite JavaScript number is modelled by the real number it  *)
(* stands for: a vector component is a rational [n, d] in lowest terms,    *)
(* and a score or a distance, which the code obtains through Math.sqrt,    *)
(* is a signed root [sg, sq] = sg * sqrt(sq) with sq a rational.  NaN and  *)
(* Infinity are values of their own.  Rounding of doubles is not modelled. *)
(***************************************************************************)
EXTENDS Integers, Sequences, FiniteSets, TLC

VARIABLES
    documents,  \* this.documents: the records, in insertion order
    nextId,     \* this.nextId
    ret,        \* the last call: its name, its arguments and what it returned or threw
    issued,     \* history: the arguments of every add since the last clear whose
                \*          record has not been deleted since, with the id add returned
    lastAddId   \* history: the id the most recent add returned (0: no add yet)

vars == <<documents, nextId, ret, issued, lastAddId>>

(***************************************************************************)
(* Bounds.                                                                 *)
(***************************************************************************)
\* add is not called once nextId has passed MaxId
MaxId == 3

\* the texts given to chunkText and to generateEmbedding have at most
\* MaxTextLen characters
MaxTextLen == 3

(***************************************************************************)
(* Rational arithmetic: [n |-> numerator, d |-> denominator > 0], lowest   *)
(* terms.                                                                  *)
(***************************************************************************)
Abs(x) == IF x < 0 THEN -x ELSE x

Sign(x) == IF x < 0 THEN -1 ELSE IF x = 0 THEN 0 ELSE 1

RECURSIVE Gcd(_, _)
Gcd(a, b) == IF b = 0 THEN a ELSE Gcd(b, a % b)

Rat(n, d) ==
    LET g == Gcd(Abs(n), Abs(d))
    IN  [n |-> (Sign(d) * n) \div g, d |-> Abs(d) \div g]

R(n) == [n |-> n, d |-> 1]

RAdd(a, b) ==
    LET g == Gcd(a.d, b.d)
    IN  Rat(a.n * (b.d \div g) + b.n * (a.d \div g), (a.d \div g) * b.d)

RNeg(a) == [n |-> -a.n, d |-> a.d]

RSub(a, b) == RAdd(a, RNeg(b))

\* cross-cancelled before multiplying, so that no intermediate product is
\* larger than the result
RMul(a, b) ==
    LET g1 == Gcd(Abs(a.n), b.d)
        g2 == Gcd(Abs(b.n), a.d)
    IN  IF a.n = 0 \/ b.n = 0 THEN R(0)
        ELSE [n |-> (a.n \div g1) * (b.n \div g2), d |-> (a.d \div g2) * (b.d \div g1)]

\* b # 0
RDiv(a, b) == RMul(a, Rat(b.d, b.n))

\* the sign of p/q - r/s for p, r >= 0 and q, s > 0, by the integer parts
\* and then the reciprocals of the fractional parts (no product is formed)
RECURSIVE CmpFrac(_, _, _, _)
CmpFrac(p, q, r, s) ==
    IF p \div q # r \div s THEN Sign((p \div q) - (r \div s))
    ELSE IF p % q = 0 \/ r % s = 0 THEN Sign((p % q) - (r % s))
    ELSE CmpFrac(s, r % s, q, p % q)

\* the sign of a - b
RCmp(a, b) ==
    IF Sign(a.n) # Sign(b.n) THEN Sign(Sign(a.n) - Sign(b.n))
    ELSE IF a.n >= 0 THEN CmpFrac(a.n, a.d, b.n, b.d)
    ELSE CmpFrac(-b.n, b.d, -a.n, a.d)

IntVec(s) == [i \in DOMAIN s |-> R(s[i])]

(***************************************************************************)
(* Scores and distances: [sg, sq] stands for sg * sqrt(sq), sg in          *)
(* {-1, 0, 1}, sq a rational >= 0.  Infinity has sq = 1/0.                 *)
(***************************************************************************)
Num(r) == [sg |-> Sign(r.n), sq |-> RMul(r, r)]

Infinity == [sg |-> 1, sq |-> [n |-> 1, d |-> 0]]

IsInfinity(x) == x.sq.d = 0

\* the sign of x - y
NumCmp(x, y) ==
    CASE IsInfinity(x) /\ IsInfinity(y) -> 0
      [] IsInfinity(x) /\ ~IsInfinity(y) -> 1
      [] ~IsInfinity(x) /\ IsInfinity(y) -> -1
      [] OTHER ->
           IF x.sg # y.sg THEN Sign(x.sg - y.sg)
           ELSE IF x.sg = 1 THEN RCmp(x.sq, y.sq)
           ELSE IF x.sg = -1 THEN RCmp(y.sq, x.sq)
           ELSE 0

(***************************************************************************)
(* Metric library: src/embeddings.js, lines 39 to 81.                      *)
(***************************************************************************)
DimensionError == "Vectors must have the same dimensions"

\* the guard of both metrics: vecA.length !== vecB.length
DimensionMismatch(vecA, vecB) == Len(vecA) # Len(vecB)

RECURSIVE DotFrom(_, _, _)
DotFrom(vecA, vecB, i) ==
    IF i > Len(vecA) THEN R(0)
    ELSE RAdd(RMul(vecA[i], vecB[i]), DotFrom(vecA, vecB, i + 1))

\* the loop of cosineSimilarity: dotProduct is Dot(vecA, vecB); magnitudeA
\* and magnitudeB before the square root are Dot(vecA, vecA), Dot(vecB, vecB)
Dot(vecA, vecB) == DotFrom(vecA, vecB, 1)

\* what a call returns or throws
Throw(error) == [kind |-> "throw", val |-> error]

Value(v) == [kind |-> "value", val |-> v]

\* throws when the lengths differ; else 0 when a magnitude is 0, else
\* dotProduct / (sqrt(magnitudeA) * sqrt(magnitudeB))
cosineSimilarity(vecA, vecB) ==
    IF DimensionMismatch(vecA, vecB) THEN Throw(DimensionError)
    ELSE LET dotProduct == Dot(vecA, vecB)
             magnitudeA == Dot(vecA, vecA)
             magnitudeB == Dot(vecB, vecB)
         IN  IF magnitudeA.n = 0 \/ magnitudeB.n = 0 THEN Value(Num(R(0)))
             ELSE Value([sg |-> Sign(dotProduct.n),
                         sq |-> RMul(RDiv(dotProduct, magnitudeA),
                                     RDiv(dotProduct, magnitudeB))])

RECURSIVE SquaredDistanceFrom(_, _, _)
SquaredDistanceFrom(vecA, vecB, i) ==
    IF i > Len(vecA) THEN R(0)
    ELSE LET diff == RSub(vecA[i], vecB[i])
         IN  RAdd(RMul(diff, diff), SquaredDistanceFrom(vecA, vecB, i + 1))

\* throws when the lengths differ; else Math.sqrt(sum)
euclideanDistance(vecA, vecB) ==
    IF DimensionMismatch(vecA, vecB) THEN Throw(DimensionError)
    ELSE LET sum == SquaredDistanceFrom(vecA, vecB, 1)
         IN  Value([sg |-> Sign(sum.n), sq |-> sum])

(***************************************************************************)
(* VectorStore: src/embeddings.js, lines 96 to 217.                        *)
(***************************************************************************)
Undefined == [undefined |-> TRUE]

Null == [null |-> TRUE]

\* Array.prototype.findIndex(doc => doc.id === id): the first index
\* (0-based), or -1
RECURSIVE FindIndexFrom(_, _, _)
FindIndexFrom(docs, id, i) ==
    IF i > Len(docs) THEN -1
    ELSE IF docs[i].id = id THEN i - 1
    ELSE FindIndexFrom(docs, id, i + 1)

FindIndex(docs, id) == FindIndexFrom(docs, id, 1)

\* Array.prototype.splice(index, 1): the array without the element at the
\* (0-based) index
Splice1(docs, index) ==
    [i \in 1..(Len(docs) - 1) |-> IF i <= index THEN docs[i] ELSE docs[i + 1]]

\* the record addDocument builds; id: this.nextId++ yields the old value
NewDocumentBadId(text, embedding, metadata, timestamp) ==
    [id |-> Len(documents) + 1, text |-> text, embedding |-> embedding,
     metadata |-> metadata, timestamp |-> timestamp]

NewDocument(text, embedding, metadata, timestamp) ==
    [id |-> nextId, text |-> text, embedding |-> embedding,
     metadata |-> metadata, timestamp |-> timestamp]

\* timestamp stands for new Date().toISOString() at the time of the call
AddDocument(text, embedding, metadata, timestamp) ==
    /\ nextId <= MaxId
    /\ LET document == NewDocument(text, embedding, metadata, timestamp)
       IN  /\ nextId' = nextId + 1
           /\ documents' = Append(documents, document)
           /\ ret' = [op |-> "addDocument", args |-> <<text, embedding, metadata>>,
                      kind |-> "value", val |-> document]
           /\ issued' = issued \cup {[id |-> document.id, text |-> text,
                                      embedding |-> embedding, metadata |-> metadata]}
           /\ lastAddId' = document.id

\* this.documents.find(doc => doc.id === id) || null
getDocumentByPosition(id) ==
    IF id >= 1 /\ id <= Len(documents) THEN documents[id] ELSE Null

getDocument(id) ==
    LET index == FindIndex(documents, id)
    IN  IF index = -1 THEN Null ELSE documents[index + 1]

GetDocument(id) ==
    /\ ret' = [op |-> "getDocument", args |-> <<id>>, kind |-> "value",
               val |-> getDocument(id)]
    /\ UNCHANGED <<documents, nextId, issued, lastAddId>>

\* the array deleteDocument leaves in this.documents
AfterDeleteTruncating(id) ==
    LET index == FindIndex(documents, id)
    IN  IF index # -1 THEN SubSeq(documents, 1, index) ELSE documents

AfterDelete(id) ==
    LET index == FindIndex(documents, id)
    IN  IF index # -1 THEN Splice1(documents, index) ELSE documents

DeleteDocument(id) ==
    /\ documents' = AfterDelete(id)
    /\ ret' = [op |-> "deleteDocument", args |-> <<id>>, kind |-> "value",
               val |-> (FindIndex(documents, id) # -1)]
    /\ issued' = IF FindIndex(documents, id) # -1
                 THEN {r \in issued : r.id # id} ELSE issued
    /\ UNCHANGED <<nextId, lastAddId>>

GetAllDocuments ==
    /\ ret' = [op |-> "getAllDocuments", args |-> <<>>, kind |-> "value",
               val |-> documents]
    /\ UNCHANGED <<documents, nextId, issued, lastAddId>>

\* this.nextId after clear()
ClearedNextIdKept == nextId

ClearedNextId == 1

Clear ==
    /\ documents' = <<>>
    /\ nextId' = ClearedNextId
    /\ ret' = [op |-> "clear", args |-> <<>>, kind |-> "value", val |-> Undefined]
    /\ issued' = {}
    /\ UNCHANGED lastAddId

getStatsLastRecord ==
    [totalDocuments |-> Len(documents),
     dimensions |-> IF Len(documents) > 0
                    THEN Len(documents[Len(documents)].embedding) ELSE 0]

getStats ==
    [totalDocuments |-> Len(documents),
     dimensions |-> IF Len(documents) > 0 THEN Len(documents[1].embedding) ELSE 0]

GetStats ==
    /\ ret' = [op |-> "getStats", args |-> <<>>, kind |-> "value", val |-> getStats]
    /\ UNCHANGED <<documents, nextId, issued, lastAddId>>

(***************************************************************************)
(* Retrieval: VectorStore.search and VectorStore.searchByDistance.         *)
(***************************************************************************)
Min(a, b) == IF a < b THEN a ELSE b

\* Array.prototype.sort(compare): stable (ECMAScript 2019), so with a
\* consistent comparator element i comes after exactly the elements that
\* compare below it and the earlier elements that compare equal to it.
\* cmp[i][j] is the sign of compare(s[i], s[j]).
StableSort(s, cmp) ==
    LET before(i) ==
            {j \in 1..Len(s) : \/ cmp[j][i] < 0
                               \/ cmp[j][i] = 0 /\ j < i}
    IN  [k \in 1..Len(s) |->
            s[CHOOSE i \in 1..Len(s) : Cardinality(before(i)) = k - 1]]

\* Array.prototype.slice(0, topK), topK >= 0
Slice0(s, topK) == SubSeq(s, 1, Min(topK, Len(s)))

\* some call of cosineSimilarity in the map callback throws (its guard)
SearchThrows(queryEmbedding) ==
    \E i \in 1..Len(documents) :
        DimensionMismatch(queryEmbedding, documents[i].embedding)

\* { ...doc, score: similarity }
WithScore(doc, similarity) ==
    [id |-> doc.id, text |-> doc.text, embedding |-> doc.embedding,
     metadata |-> doc.metadata, timestamp |-> doc.timestamp, score |-> similarity]

\* result.score >= threshold
PassesThresholdStrict(score, threshold) == NumCmp(score, threshold) > 0

PassesThreshold(score, threshold) == NumCmp(score, threshold) >= 0

\* (a, b) => b.score - a.score
ByScoreDescending(a, b) == NumCmp(b.score, a.score)

\* what search returns when no comparison throws
search(queryEmbedding, topK, threshold) ==
    LET results == [i \in 1..Len(documents) |->
                       WithScore(documents[i],
                                 cosineSimilarity(queryEmbedding,
                                                  documents[i].embedding).val)]
        kept == SelectSeq(results, LAMBDA result : PassesThreshold(result.score, threshold))
        compare == [i \in 1..Len(kept) |->
                       [j \in 1..Len(kept) |-> ByScoreDescending(kept[i], kept[j])]]
    IN  Slice0(StableSort(kept, compare), topK)

\* the outcome of search: the error of the first comparison that throws,
\* else the result
searchOutcomeSwallowed(queryEmbedding, topK, threshold) ==
    [op |-> "search", args |-> <<queryEmbedding, topK, threshold>>,
     kind |-> "value",
     val |-> IF SearchThrows(queryEmbedding) THEN <<>>
             ELSE search(queryEmbedding, topK, threshold)]

searchOutcome(queryEmbedding, topK, threshold) ==
    IF SearchThrows(queryEmbedding)
    THEN [op |-> "search", args |-> <<queryEmbedding, topK, threshold>>,
          kind |-> "throw", val |-> DimensionError]
    ELSE [op |-> "search", args |-> <<queryEmbedding, topK, threshold>>,
          kind |-> "value", val |-> search(queryEmbedding, topK, threshold)]

\* search works on copies: the map callback builds { ...doc, score }, and
\* filter, sort and slice act on the mapped array
SearchScoringInPlace(queryEmbedding, topK, threshold) ==
    /\ ret' = searchOutcome(queryEmbedding, topK, threshold)
    /\ documents' = IF SearchThrows(queryEmbedding) THEN documents
                    ELSE [i \in 1..Len(documents) |->
                             WithScore(documents[i],
                                       cosineSimilarity(queryEmbedding,
                                                        documents[i].embedding).val)]
    /\ UNCHANGED <<nextId, issued, lastAddId>>

Search(queryEmbedding, topK, threshold) ==
    /\ ret' = searchOutcome(queryEmbedding, topK, threshold)
    /\ UNCHANGED <<documents, nextId, issued, lastAddId>>

\* { ...doc, distance }
WithDistance(doc, distance) ==
    [id |-> doc.id, text |-> doc.text, embedding |-> doc.embedding,
     metadata |-> doc.metadata, timestamp |-> doc.timestamp, distance |-> distance]

\* result.distance <= maxDistance
WithinDistance(distance, maxDistance) == NumCmp(distance, maxDistance) <= 0

\* (a, b) => a.distance - b.distance
ByDistanceDescending(a, b) == NumCmp(b.distance, a.distance)

ByDistanceAscending(a, b) == NumCmp(a.distance, b.distance)

\* some call of euclideanDistance in the map callback throws (its guard)
SearchByDistanceThrows(queryEmbedding) ==
    \E i \in 1..Len(documents) :
        DimensionMismatch(queryEmbedding, documents[i].embedding)

\* what searchByDistance returns when no comparison throws
searchByDistance(queryEmbedding, topK, maxDistance) ==
    LET results == [i \in 1..Len(documents) |->
                       WithDistance(documents[i],
                                    euclideanDistance(queryEmbedding,
                                                      documents[i].embedding).val)]
        kept == SelectSeq(results, LAMBDA result : WithinDistance(result.distance, maxDistance))
        compare == [i \in 1..Len(kept) |->
                       [j \in 1..Len(kept) |-> ByDistanceAscending(kept[i], kept[j])]]
    IN  Slice0(StableSort(kept, compare), topK)

searchByDistanceOutcome(queryEmbedding, topK, maxDistance) ==
    IF SearchByDistanceThrows(queryEmbedding)
    THEN [op |-> "searchByDistance", args |-> <<queryEmbedding, topK, maxDistance>>,
          kind |-> "throw", val |-> DimensionError]
    ELSE [op |-> "searchByDistance", args |-> <<queryEmbedding, topK, maxDistance>>,
          kind |-> "value",
          val |-> searchByDistance(queryEmbedding, topK, maxDistance)]

SearchByDistance(queryEmbedding, topK, maxDistance) ==
    /\ ret' = searchByDistanceOutcome(queryEmbedding, topK, maxDistance)
    /\ UNCHANGED <<documents, nextId, issued, lastAddId>>

(***************************************************************************)
(* The calls the store is driven with.                                     *)
(***************************************************************************)
\* the ids get and delete are called with: every id add can return, and
\* two it never returns
ProbeIds == 0..(MaxId + 1)

Timestamps == {"2024-01-01T00:00:00.000Z", "2024-01-01T00:00:01.000Z"}

\* (text, embedding, metadata) of the add calls; the embeddings are of
\* two dimensionalities
AddInputs ==
    { [text |-> <<"a">>, embedding |-> IntVec(<<3, 4>>), metadata |-> {}],
      [text |-> <<"b">>, embedding |-> IntVec(<<3, 0>>),
       metadata |-> {<<"category", "tech">>}],
      [text |-> <<"a">>, embedding |-> IntVec(<<0, 4, 0>>),
       metadata |-> {<<"category", "tech">>}] }

Init ==
    /\ documents = <<>>
    /\ nextId = 1
    /\ ret = [op |-> "constructor", args |-> <<>>, kind |-> "value", val |-> Undefined]
    /\ issued = {}
    /\ lastAddId = 0

Add == \E in \in AddInputs, ts \in Timestamps :
           AddDocument(in.text, in.embedding, in.metadata, ts)

Get == \E id \in ProbeIds : GetDocument(id)

Delete == \E id \in ProbeIds : DeleteDocument(id)

Next == Add \/ Get \/ Delete \/ GetAllDocuments \/ GetStats \/ Clear

\* the store's methods without retrieval
Spec == Init /\ [][Next]_vars

(***************************************************************************)
(* Retrieval calls.                                                        *)
(***************************************************************************)
\* topK when the caller gives none (search(queryEmbedding, topK = 5, ...))
DefaultTopK == 5

TopKs == {0, 2, DefaultTopK}

\* against the query (3, 4): (3, 4) and (6, 8) tie at similarity 1,
\* (6, 8) and (0, 0) tie at distance 5, (0, 0) has no magnitude, and
\* (0, 4, 0) is of another dimensionality
SearchAddInputs ==
    { [text |-> <<"a">>, embedding |-> IntVec(e), metadata |-> {}] :
        e \in {<<3, 4>>, <<6, 8>>, <<0, 0>>, <<0, 4, 0>>} }

Queries == {IntVec(<<3, 4>>), IntVec(<<0, 4, 0>>)}

\* minimum similarities: 0 is the default, 1 is a score the inputs produce
Thresholds == {Num(R(0)), Num(R(1))}

\* maximum distances: Infinity is the default, 0 is the distance of an
\* embedding equal to the query
MaxDistances == {Num(R(0)), Infinity}

AddForSearch == \E in \in SearchAddInputs :
                    AddDocument(in.text, in.embedding, in.metadata,
                                "2024-01-01T00:00:00.000Z")

SearchCosine == \E q \in Queries, topK \in TopKs, threshold \in Thresholds :
                    Search(q, topK, threshold)

SearchEuclidean == \E q \in Queries, topK \in TopKs, maxDistance \in MaxDistances :
                       SearchByDistance(q, topK, maxDistance)

NextSearch == AddForSearch \/ Delete \/ SearchCosine \/ SearchEuclidean

\* the store under retrieval
SpecSearch == Init /\ [][NextSearch]_vars

\* one retrieval call of each kind, with the default arguments
SearchDefaults == Search(IntVec(<<3, 4>>), DefaultTopK, Num(R(0)))

SearchByDistanceDefaults == SearchByDistance(IntVec(<<3, 4>>), DefaultTopK, Infinity)

NextNoClear ==
    \/ Add \/ Get \/ Delete \/ GetAllDocuments \/ GetStats
    \/ SearchDefaults \/ SearchByDistanceDefaults

\* every method of the store but clear
SpecNoClear == Init /\ [][NextNoClear]_vars

NextStore == NextNoClear \/ Clear

\* every method of the store
SpecStore == Init /\ [][NextStore]_vars

(***************************************************************************)
(* Embedder: generateEmbedding, src/embeddings.js, lines 12 to 31.         *)
(* A text is the sequence of its characters.                               *)
(***************************************************************************)
UpperLetters ==
    <<"A", "B", "C", "D", "E", "F", "G", "H", "I", "J", "K", "L", "M",
      "N", "O", "P", "Q", "R", "S", "T", "U", "V", "W", "X", "Y", "Z">>

LowerLetters ==
    <<"a", "b", "c", "d", "e", "f", "g", "h", "i", "j", "k", "l", "m",
      "n", "o", "p", "q", "r", "s", "t", "u", "v", "w", "x", "y", "z">>

\* /[aeiou]/
Vowels == {"a", "e", "i", "o", "u"}

\* /[bcdfghjklmnpqrstvwxyz]/
Consonants == {LowerLetters[i] : i \in DOMAIN LowerLetters} \ Vowels

\* /\d/
Digits == {"0", "1", "2", "3", "4", "5", "6", "7", "8", "9"}

\* /[.!?]/
TerminalPunctuation == {".", "!", "?"}

\* /[A-Z]/
UpperCase == {UpperLetters[i] : i \in DOMAIN UpperLetters}

\* /\s/ (the whitespace of the texts used here)
WhiteSpace == {" ", "\t", "\n"}

ToLowerChar(c) ==
    IF c \in UpperCase
    THEN LowerLetters[CHOOSE i \in DOMAIN UpperLetters : UpperLetters[i] = c]
    ELSE c

\* String.prototype.toLowerCase
ToLowerCase(text) == [i \in 1..Len(text) |-> ToLowerChar(text[i])]

\* String.prototype.split(/\s+/): the pieces between the maximal runs of
\* whitespace; a run at either end leaves an empty piece there, and the
\* empty string splits into one empty piece.  cur is the piece being read.
RECURSIVE SplitFrom(_, _, _)
SplitFrom(text, i, cur) ==
    IF i > Len(text) THEN <<cur>>
    ELSE IF text[i] \in WhiteSpace
         THEN IF i > 1 /\ text[i - 1] \in WhiteSpace
              THEN SplitFrom(text, i + 1, cur)
              ELSE <<cur>> \o SplitFrom(text, i + 1, <<>>)
         ELSE SplitFrom(text, i + 1, Append(cur, text[i]))

SplitWhiteSpace(text) == SplitFrom(text, 1, <<>>)

\* (text.match(/[class]/g) || []).length
CountIn(text, class) == Cardinality({i \in 1..Len(text) : text[i] \in class})

\* words.reduce((sum, w) => sum + w.length, 0)
RECURSIVE SumOfLengths(_, _)
SumOfLengths(words, i) ==
    IF i > Len(words) THEN 0 ELSE Len(words[i]) + SumOfLengths(words, i + 1)

NaN == [n |-> 0, d |-> 0]

\* a / b on integers: 0 / 0 is NaN (no other division by 0 occurs)
JsDiv(a, b) == IF b = 0 THEN NaN ELSE Rat(a, b)

\* x || 0: 0 and NaN are falsy
OrZero(x) == IF x.n = 0 THEN R(0) ELSE x

\* Math.min(x, 1)
MinOne(x) == IF RCmp(x, R(1)) > 0 THEN R(1) ELSE x

generateEmbedding(text) ==
    LET normalized == ToLowerCase(text)
        words == SplitWhiteSpace(normalized)
    IN  << JsDiv(Len(words), 10),
           JsDiv(Len(normalized), 50),
           OrZero(JsDiv(CountIn(normalized, Vowels), Len(normalized))),
           OrZero(JsDiv(CountIn(normalized, Consonants), Len(normalized))),
           OrZero(JsDiv(CountIn(normalized, Digits), Len(normalized))),
           OrZero(JsDiv(CountIn(normalized, TerminalPunctuation), Len(words))),
           MinOne(IF Len(words) > 0
                  THEN RDiv(JsDiv(SumOfLengths(words, 1), Len(words)), R(10))
                  ELSE R(0)),
           OrZero(JsDiv(CountIn(normalized, UpperCase), Len(text))),
           IF CountIn(text, {"?"}) > 0 THEN R(1) ELSE R(0),
           IF CountIn(text, {"!"}) > 0 THEN R(1) ELSE R(0) >>

(***************************************************************************)
(* HTTP handlers: src/server.js.  A JSON value of a request body carries   *)
(* its JavaScript type.                                                    *)
(***************************************************************************)
JsUndefined == [type |-> "undefined"]

JsString(chars) == [type |-> "string", chars |-> chars]

JsNumber(x) == [type |-> "number", value |-> x]

JsObject(props) == [type |-> "object", props |-> props]

JsName(name) == [type |-> "string", value |-> name]

\* !v
Falsy(v) ==
    \/ v.type \in {"undefined", "null"}
    \/ v.type = "string" /\ v.chars = <<>>
    \/ v.type = "number" /\ v.value = 0

\* !text || typeof text !== 'string'
RejectsTextTypeOnly(text) == text.type # "string"

RejectsText(text) == Falsy(text) \/ text.type # "string"

Reply(status, body) == [status |-> status, body |-> body]

\* the reply of POST /documents for the stored document
DocumentReply(document) ==
    Reply(200, [success |-> TRUE,
                document |-> [id |-> document.id, text |-> document.text,
                              metadata |-> document.metadata,
                              timestamp |-> document.timestamp,
                              embedding |-> document.embedding]])

\* a request without a body: destructuring request.body throws, and the
\* framework answers for the handler
NoBodyReply == Reply(500, [error |-> "Internal Server Error"])

PostDocuments(body, timestamp) ==
    IF body.type = "undefined"
    THEN /\ ret' = [op |-> "POST /documents", args |-> <<body>>, kind |-> "value",
                    val |-> NoBodyReply]
         /\ UNCHANGED <<documents, nextId, issued, lastAddId>>
    ELSE IF RejectsText(body.text)
    THEN /\ ret' = [op |-> "POST /documents", args |-> <<body>>, kind |-> "value",
                    val |-> Reply(400, [error |->
                               "Text field is required and must be a string"])]
         /\ UNCHANGED <<documents, nextId, issued, lastAddId>>
    ELSE LET text == body.text.chars
             embedding == generateEmbedding(text)
             metadata == IF Falsy(body.metadata) THEN {} ELSE body.metadata.props
             document == NewDocument(text, embedding, metadata, timestamp)
         IN  /\ nextId <= MaxId
             /\ nextId' = nextId + 1
             /\ documents' = Append(documents, document)
             /\ ret' = [op |-> "POST /documents", args |-> <<body>>, kind |-> "value",
                        val |-> DocumentReply(document)]
             /\ issued' = issued \cup {[id |-> document.id, text |-> text,
                                        embedding |-> embedding,
                                        metadata |-> metadata]}
             /\ lastAddId' = document.id

\* ({ embedding, ...rest }) => rest
WithoutEmbeddingScore(r) ==
    [id |-> r.id, text |-> r.text, metadata |-> r.metadata,
     timestamp |-> r.timestamp, score |-> r.score]

WithoutEmbeddingDistance(r) ==
    [id |-> r.id, text |-> r.text, metadata |-> r.metadata,
     timestamp |-> r.timestamp, distance |-> r.distance]

\* a field of the body, or its default when the field is undefined
OrDefault(v, default) == IF v.type = "undefined" THEN default ELSE v.value

\* the try block of POST /search: the store call the method selects, and
\* its results without their embeddings
SearchReplyThresholdAsMaxDistance(query, queryEmbedding, topK, threshold, method) ==
    IF method = "euclidean"
    THEN LET outcome == searchByDistanceOutcome(queryEmbedding, topK, threshold)
         IN  IF outcome.kind = "throw" THEN Reply(500, [error |-> "Search failed"])
             ELSE Reply(200, [success |-> TRUE, query |-> query, method |-> method,
                              results |-> [k \in 1..Len(outcome.val) |->
                                  WithoutEmbeddingDistance(outcome.val[k])]])
    ELSE LET outcome == searchOutcome(queryEmbedding, topK, threshold)
         IN  IF outcome.kind = "throw" THEN Reply(500, [error |-> "Search failed"])
             ELSE Reply(200, [success |-> TRUE, query |-> query, method |-> method,
                              results |-> [k \in 1..Len(outcome.val) |->
                                  WithoutEmbeddingScore(outcome.val[k])]])

SearchReply(query, queryEmbedding, topK, threshold, method) ==
    IF method = "euclidean"
    THEN LET outcome == searchByDistanceOutcome(queryEmbedding, topK, Infinity)
         IN  IF outcome.kind = "throw" THEN Reply(500, [error |-> "Search failed"])
             ELSE Reply(200, [success |-> TRUE, query |-> query, method |-> method,
                              results |-> [k \in 1..Len(outcome.val) |->
                                  WithoutEmbeddingDistance(outcome.val[k])]])
    ELSE LET outcome == searchOutcome(queryEmbedding, topK, threshold)
         IN  IF outcome.kind = "throw" THEN Reply(500, [error |-> "Search failed"])
             ELSE Reply(200, [success |-> TRUE, query |-> query, method |-> method,
                              results |-> [k \in 1..Len(outcome.val) |->
                                  WithoutEmbeddingScore(outcome.val[k])]])

PostSearch(body) ==
    /\ ret' = [op |-> "POST /search", args |-> <<body>>, kind |-> "value",
               val |-> IF body.type = "undefined" THEN NoBodyReply
                       ELSE IF RejectsText(body.query)
                       THEN Reply(400, [error |->
                                "Query field is required and must be a string"])
                       ELSE SearchReply(body.query.chars,
                                        generateEmbedding(body.query.chars),
                                        OrDefault(body.topK, DefaultTopK),
                                        OrDefault(body.threshold, Num(R(0))),
                                        OrDefault(body.method, "cosine"))]
    /\ UNCHANGED <<documents, nextId, issued, lastAddId>>

(***************************************************************************)
(* The requests the server is driven with.                                 *)
(***************************************************************************)
\* a text that is accepted, with and without metadata; the empty string;
\* no text; a text that is not a string; no body at all
DocumentBodies ==
    { [type |-> "object", text |-> JsString(<<"a">>), metadata |-> JsUndefined],
      [type |-> "object", text |-> JsString(<<"B", "!">>),
       metadata |-> JsObject({<<"category", "tech">>})],
      [type |-> "object", text |-> JsString(<<>>), metadata |-> JsUndefined],
      [type |-> "object", text |-> JsUndefined, metadata |-> JsUndefined],
      [type |-> "object", text |-> JsNumber(5), metadata |-> JsUndefined],
      JsUndefined }

\* the threshold 1/2 lies below every distance but 0 and above some
\* similarities
SearchBodies ==
    { [type |-> "object", query |-> JsString(<<"a">>), topK |-> k, threshold |-> t,
       method |-> m] :
        k \in {JsUndefined, JsNumber(1)},
        t \in {JsUndefined, JsNumber(Num(Rat(1, 2)))},
        m \in {JsUndefined, JsName("euclidean")} }
    \cup { [type |-> "object", query |-> JsString(<<>>), topK |-> JsUndefined,
            threshold |-> JsUndefined, method |-> JsName("cosine")],
           JsUndefined }

PostDocumentsRequest ==
    \E body \in DocumentBodies : PostDocuments(body, "2024-01-01T00:00:00.000Z")

PostSearchRequest == \E body \in SearchBodies : PostSearch(body)

NextServer == PostDocumentsRequest \/ PostSearchRequest

\* the store behind the HTTP boundary
SpecServer == Init /\ [][NextServer]_vars

(***************************************************************************)
(* Text chunking: chunkText, src/TextChunking.js, lines 1 to 14.           *)
(***************************************************************************)
\* String.prototype.slice(start, end), 0 <= start <= end: the characters
\* at the (0-based) positions start .. end - 1 that the text has
StringSliceInclusive(text, start, end) ==
    SubSeq(text, start + 1, Min(end + 1, Len(text)))

StringSlice(text, start, end) == SubSeq(text, start + 1, Min(end, Len(text)))

\* for (let i = 0; i < text.length; i += charactersPerChunk) { ... push ... }
\* from the loop variable i and the chunkArray built so far
RECURSIVE ChunkLoop(_, _, _, _)
ChunkLoop(text, charactersPerChunk, i, chunkArray) ==
    IF i < Len(text)
    THEN LET chunk == StringSlice(text, i, i + charactersPerChunk)
         IN  ChunkLoop(text, charactersPerChunk, i + charactersPerChunk,
                       Append(chunkArray,
                              [id |-> Len(chunkArray) + 1, chunk |-> chunk]))
    ELSE chunkArray

chunkText(text, charactersPerChunk) == ChunkLoop(text, charactersPerChunk, 0, <<>>)

(***************************************************************************)
(* The calls of the two pure text functions.  The store is not involved:   *)
(* ret holds the call, first as made (kind "call"), then as returned.      *)
(***************************************************************************)
\* every text of at most MaxTextLen characters over the alphabet
TextsOver(alphabet) == UNION {[1..len -> alphabet] : len \in 0..MaxTextLen}

ChunkTexts == TextsOver({"a", "b"})

\* window sizes: below, at and above the length of the longest text
ChunkSizes == 1..(MaxTextLen + 1)

InitChunk ==
    /\ documents = <<>>
    /\ nextId = 1
    /\ issued = {}
    /\ lastAddId = 0
    /\ \E text \in ChunkTexts, charactersPerChunk \in ChunkSizes :
           ret = [op |-> "chunkText", args |-> <<text, charactersPerChunk>>,
                  kind |-> "call", val |-> Undefined]

ChunkText ==
    /\ ret.op = "chunkText" /\ ret.kind = "call"
    /\ ret' = [ret EXCEPT !.kind = "value",
                          !.val = chunkText(ret.args[1], ret.args[2])]
    /\ UNCHANGED <<documents, nextId, issued, lastAddId>>

\* chunkText on every text and window size
SpecChunk == InitChunk /\ [][ChunkText]_vars

\* a lower-case letter, an upper-case letter and two kinds of whitespace
EmbedTexts == TextsOver({"a", "B", " ", "\t"})

InitEmbed ==
    /\ documents = <<>>
    /\ nextId = 1
    /\ issued = {}
    /\ lastAddId = 0
    /\ \E text \in EmbedTexts :
           ret = [op |-> "generateEmbedding", args |-> <<text>>,
                  kind |-> "call", val |-> Undefined]

GenerateEmbedding ==
    /\ ret.op = "generateEmbedding" /\ ret.kind = "call"
    /\ ret' = [ret EXCEPT !.kind = "value",
                          !.val = generateEmbedding(ret.args[1])]
    /\ UNCHANGED <<documents, nextId, issued, lastAddId>>

\* generateEmbedding on every text
SpecEmbed == InitEmbed /\ [][GenerateEmbedding]_vars

(***************************************************************************)
(* Properties of the store.                                                *)
(***************************************************************************)
IsNull(v) == DOMAIN v = {"null"}

Ids(docs) == {docs[i].id : i \in 1..Len(docs)}

\* a step in which addDocument appended a record
AddStep == ret'.op = "addDocument" /\ Len(documents') = Len(documents) + 1

\* C1: without clear, the ids of the stored records are pairwise distinct
\* and every add returns the id of the previous add plus one (the first
\* add returns 1), so no id comes back after a delete.
C1_IdsUniqueNeverReused ==
    [][/\ \A i, j \in 1..Len(documents') :
             i # j => documents'[i].id # documents'[j].id
       /\ AddStep => ret'.val.id = lastAddId + 1]_vars

\* add, add, delete(2), add: the last add returned 3, not the freed 2
C1_Witness ==
    /\ ret.op = "addDocument" /\ ret.val.id = 3
    /\ Ids(documents) = {1, 3}

\* C2: right after clear the store holds no record (list, stats and get
\* agree), and an add that follows clear directly returns id 1.
C2_ClearEmptiesAndResets ==
    [][/\ ret'.op = "clear" =>
             /\ documents' = <<>>
             /\ getStats'.totalDocuments = 0
             /\ \A id \in ProbeIds : IsNull(getDocument(id)')
       /\ (ret.op = "clear" /\ AddStep) => ret'.val.id = 1]_vars

\* clear has emptied a store in which the ids 1, 2 and 3 had been assigned
C2_Witness ==
    /\ ret.op = "clear" /\ lastAddId = 3
    /\ documents = <<>>

\* C3: delete(id) returns true exactly when a record has that id; then the
\* records left are the other records, unchanged and in their order, one
\* fewer than before; otherwise the records are unchanged; the id counter
\* is unchanged either way and nothing is thrown.
C3_DeleteRemovesExactlyThatRecord ==
    [][ret'.op = "deleteDocument" =>
         LET id == ret'.args[1]
             present == id \in Ids(documents)
         IN  /\ ret'.kind = "value"
             /\ ret'.val = present
             /\ documents' = SelectSeq(documents, LAMBDA d : d.id # id)
             /\ Len(documents') = Len(documents) - (IF present THEN 1 ELSE 0)
             /\ nextId' = nextId]_vars

\* delete(2) removed the middle one of three records
C3_Witness ==
    /\ ret.op = "deleteDocument" /\ ret.args = <<2>> /\ ret.val = TRUE
    /\ Len(documents) = 2 /\ documents[1].id = 1 /\ documents[2].id = 3

\* what get(id) is to return by the history of adds, deletes and clears
ExpectedGet(id, v) ==
    LET live == {r \in issued : r.id = id}
    IN  IF live = {} THEN IsNull(v)
        ELSE /\ ~IsNull(v)
             /\ v.id = id
             /\ live = {[id |-> v.id, text |-> v.text, embedding |-> v.embedding,
                          metadata |-> v.metadata]}

\* C4: get(id) returns the record of that id, with the text, embedding
\* and metadata of its add, exactly when an add since the last clear
\* returned the id and no delete removed it since; else null; it never
\* throws.
C4_GetFindsExactlyLiveIds ==
    /\ \A id \in ProbeIds : ExpectedGet(id, getDocument(id))
    /\ ret.op = "getDocument" =>
          ret.kind = "value" /\ ExpectedGet(ret.args[1], ret.val)

\* get(1) reports absence after id 1 was assigned and deleted, while id 2
\* is still stored
C4_Witness ==
    /\ ret.op = "getDocument" /\ ret.args = <<1>> /\ IsNull(ret.val)
    /\ nextId = 3 /\ Ids(documents) = {2}

\* what stats() is to return by the history: the number of live records,
\* and the embedding length of the oldest of them
ExpectedStats ==
    [totalDocuments |-> Cardinality(issued),
     dimensions |-> IF issued = {} THEN 0
                    ELSE LET first == CHOOSE r \in issued :
                                          \A o \in issued : r.id <= o.id
                         IN  Len(first.embedding)]

\* C10: stats() reports the number of records stored and the embedding
\* length of the record first in insertion order, 0 for an empty store.
C10_StatsCountAndFirstDimensions ==
    /\ getStats = ExpectedStats
    /\ ret.op = "getStats" => ret.val = ExpectedStats

\* stats after the first record was deleted: the dimensions are those of
\* the next record (3), not of the last (2)
C10_Witness ==
    /\ ret.op = "getStats" /\ ret.val.dimensions = 3
    /\ Len(documents) = 2 /\ documents[1].id = 2
    /\ Len(documents[2].embedding) = 2

(***************************************************************************)
(* Properties of retrieval.                                                *)
(***************************************************************************)
\* the position in the store of the record a result was made from
PositionOf(result) == CHOOSE i \in 1..Len(documents) : documents[i].id = result.id

SameRecord(result, doc) ==
    /\ result.id = doc.id /\ result.text = doc.text
    /\ result.embedding = doc.embedding /\ result.metadata = doc.metadata
    /\ result.timestamp = doc.timestamp

AllOfDimension(queryEmbedding) ==
    \A i \in 1..Len(documents) : Len(documents[i].embedding) = Len(queryEmbedding)

\* res is the first topK of: the positions in pass, ordered by rank
\* ascending, equal ranks by position.  rank[i] is the sort key of
\* position i, and Key(result) the key a result carries.
IsTopKOfRanked(res, topK, pass, Rank(_), Key(_)) ==
    LET Precedes(i, j) == \/ NumCmp(Rank(i), Rank(j)) < 0
                          \/ NumCmp(Rank(i), Rank(j)) = 0 /\ i < j
        chosen == {PositionOf(res[k]) : k \in 1..Len(res)}
    IN  /\ Len(res) = Min(topK, Cardinality(pass))
        /\ \A k \in 1..Len(res) :
              /\ res[k].id \in Ids(documents)
              /\ PositionOf(res[k]) \in pass
              /\ SameRecord(res[k], documents[PositionOf(res[k])])
              /\ Key(res[k]) = Rank(PositionOf(res[k]))
        /\ \A k, l \in 1..Len(res) :
              k < l => Precedes(PositionOf(res[k]), PositionOf(res[l]))
        /\ \A i \in pass \ chosen : \A j \in chosen : Precedes(j, i)

\* the negation of a score, so that descending scores are ascending ranks
Negated(x) == [sg |-> -x.sg, sq |-> x.sq]

\* C5: when every stored embedding has the query's dimensionality, cosine
\* search returns the first topK of the records with similarity >=
\* threshold, ordered by similarity descending, equal similarities in
\* insertion order: min(topK, number passing) results.
C5_CosineSearchIsTopKOfSorted ==
    (ret.op = "search" /\ AllOfDimension(ret.args[1])) =>
        LET q == ret.args[1]
            topK == ret.args[2]
            threshold == ret.args[3]
            Sim(i) == cosineSimilarity(q, documents[i].embedding).val
            pass == {i \in 1..Len(documents) : NumCmp(Sim(i), threshold) >= 0}
        IN  /\ ret.kind = "value"
            /\ IsTopKOfRanked(ret.val, topK, pass,
                               LAMBDA i : Negated(Sim(i)),
                               LAMBDA r : Negated(r.score))

\* search((3, 4), topK = 2, threshold = 0) over (0, 0), (6, 8), (3, 4):
\* all three pass (the first at the threshold itself), the two of
\* similarity 1 are returned in insertion order
C5_Witness ==
    /\ ret.op = "search" /\ ret.kind = "value"
    /\ ret.args = <<IntVec(<<3, 4>>), 2, Num(R(0))>>
    /\ Len(documents) = 3
    /\ documents[1].embedding = IntVec(<<0, 0>>)
    /\ documents[2].embedding = IntVec(<<6, 8>>)
    /\ documents[3].embedding = IntVec(<<3, 4>>)
    /\ Len(ret.val) = 2
    /\ ret.val[1].id = documents[2].id /\ ret.val[2].id = documents[3].id
    /\ ret.val[1].score = ret.val[2].score

MetricVectors ==
    {IntVec(<<3, 4>>), IntVec(<<0, 0>>), IntVec(<<0, 4, 0>>), IntVec(<<5>>), <<>>}

\* C7: both metrics throw on vectors of different lengths; so search and
\* searchByDistance throw that error, whatever topK and the threshold,
\* when some stored embedding is not of the query's length, and the
\* records and the id counter stay as they were.
C7_DimensionMismatchThrows ==
    [][/\ \A a, b \in MetricVectors :
             Len(a) # Len(b) =>
                 /\ cosineSimilarity(a, b) = Throw(DimensionError)
                 /\ euclideanDistance(a, b) = Throw(DimensionError)
       /\ ( /\ ret'.op \in {"search", "searchByDistance"}
            /\ ~AllOfDimension(ret'.args[1]) )
          => /\ ret'.kind = "throw"
             /\ ret'.val = DimensionError
             /\ documents' = documents
             /\ nextId' = nextId]_vars

\* search with topK = 0 threw: the first record is of the query's
\* dimensionality, the second is not
C7_Witness ==
    /\ ret.op = "search" /\ ret.kind = "throw" /\ ret.args[2] = 0
    /\ Len(documents) = 2
    /\ Len(documents[1].embedding) = Len(ret.args[1])
    /\ Len(documents[2].embedding) # Len(ret.args[1])

(***************************************************************************)
(* Properties of the HTTP boundary.                                        *)
(***************************************************************************)
\* the text of a request body is a string
TextIsString(body) == body.type = "object" /\ body.text.type = "string"

\* the text of a request body is a string with at least one character
TextIsNonEmptyString(body) == TextIsString(body) /\ body.text.chars # <<>>

\* what a POST /documents step is to do with a request that is, or is
\* not, to be accepted
PostDocumentsContract(body, accepted) ==
    IF accepted
    THEN /\ ret'.val.status = 200
         /\ documents' = Append(documents, documents'[Len(documents')])
         /\ LET record == documents'[Len(documents')]
            IN  /\ record.id \notin Ids(documents)
                /\ record.text = body.text.chars
                /\ record.embedding = generateEmbedding(body.text.chars)
                /\ ret'.val.body.document =
                      [id |-> record.id, text |-> record.text,
                       metadata |-> record.metadata,
                       timestamp |-> record.timestamp,
                       embedding |-> record.embedding]
    ELSE /\ ret'.val.status >= 400
         /\ documents' = documents
         /\ nextId' = nextId

\* C8 as amended: POST /documents rejects a request exactly when its text
\* is missing, not a string or the empty string, and then leaves the
\* records and the id counter alone; every other request embeds the text,
\* appends one record and returns its id, text, metadata, timestamp and
\* embedding.
C8_RejectsExactlyMissingNonStringOrEmpty ==
    [][ret'.op = "POST /documents" =>
         PostDocumentsContract(ret'.args[1], TextIsNonEmptyString(ret'.args[1]))]_vars

\* C8 as stated: only a missing or non-string text is rejected, the empty
\* string is stored like any other string.
C8_AsStated ==
    [][ret'.op = "POST /documents" =>
         PostDocumentsContract(ret'.args[1], TextIsString(ret'.args[1]))]_vars

\* the empty string was rejected, the one record of the store untouched
C8_Witness ==
    /\ ret.op = "POST /documents" /\ ret.val.status = 400
    /\ ret.args[1].type = "object" /\ ret.args[1].text = JsString(<<>>)
    /\ Len(documents) = 1

SearchMethod(body) == OrDefault(body.method, "cosine")

SearchThreshold(body) == OrDefault(body.threshold, Num(R(0)))

SearchAnswered == ret.op = "POST /search" /\ ret.val.status = 200

NoScoreBelowThreshold ==
    (SearchAnswered /\ SearchMethod(ret.args[1]) # "euclidean") =>
        \A k \in 1..Len(ret.val.body.results) :
            NumCmp(ret.val.body.results[k].score, SearchThreshold(ret.args[1])) >= 0

\* C9 as amended: with method "cosine" no result of POST /search has a
\* similarity below the threshold; with method "euclidean" the threshold
\* is not applied: the topK nearest records are returned, at their
\* distances from the query, however far they are.
C9_ThresholdBoundsCosineOnly ==
    /\ NoScoreBelowThreshold
    /\ (SearchAnswered /\ SearchMethod(ret.args[1]) = "euclidean") =>
          LET results == ret.val.body.results
              q == generateEmbedding(ret.args[1].query.chars)
          IN  /\ Len(results) =
                    Min(OrDefault(ret.args[1].topK, DefaultTopK), Len(documents))
              /\ \A k \in 1..Len(results) :
                    /\ results[k].id \in Ids(documents)
                    /\ results[k].distance =
                          euclideanDistance(
                              q, documents[PositionOf(results[k])].embedding).val
                    /\ \A i \in 1..Len(documents) :
                          (\A l \in 1..Len(results) : results[l].id # documents[i].id)
                          => NumCmp(results[k].distance,
                                    euclideanDistance(q, documents[i].embedding).val) <= 0

\* C9 as stated: the threshold bounds the results of both methods.
C9_AsStated ==
    /\ NoScoreBelowThreshold
    /\ (SearchAnswered /\ SearchMethod(ret.args[1]) = "euclidean") =>
          \A k \in 1..Len(ret.val.body.results) :
              NumCmp(ret.val.body.results[k].distance,
                     SearchThreshold(ret.args[1])) <= 0

\* a euclidean search with threshold 1/2 returned a record farther away
\* than 1/2
C9_Witness ==
    /\ SearchAnswered /\ SearchMethod(ret.args[1]) = "euclidean"
    /\ ret.args[1].threshold = JsNumber(Num(Rat(1, 2)))
    /\ \E k \in 1..Len(ret.val.body.results) :
          NumCmp(ret.val.body.results[k].distance, Num(Rat(1, 2))) > 0

(***************************************************************************)
(* Properties of text chunking.                                            *)
(***************************************************************************)
\* ceil(a / b), b >= 1
CeilDiv(a, b) == (a + b - 1) \div b

\* the chunk texts of chunks[k], chunks[k + 1], ... joined in that order
RECURSIVE ConcatChunksFrom(_, _)
ConcatChunksFrom(chunks, k) ==
    IF k > Len(chunks) THEN <<>>
    ELSE chunks[k].chunk \o ConcatChunksFrom(chunks, k + 1)

\* C11: for a text of length L and a window size n >= 1, chunkText returns
\* ceil(L / n) chunks whose ids are 1, 2, ... in order; every chunk but the
\* last has exactly n characters, the last has between 1 and n, and the
\* chunk texts joined in id order are the text; the empty text has no
\* chunks.
C11_ChunksPartitionText ==
    (ret.op = "chunkText" /\ ret.kind = "value") =>
        LET text == ret.args[1]
            n == ret.args[2]
            chunks == ret.val
        IN  /\ Len(chunks) = CeilDiv(Len(text), n)
            /\ \A k \in 1..Len(chunks) :
                   /\ chunks[k].id = k
                   /\ k < Len(chunks) => Len(chunks[k].chunk) = n
                   /\ k = Len(chunks) => Len(chunks[k].chunk) \in 1..n
            /\ ConcatChunksFrom(chunks, 1) = text
            /\ (text = <<>> => chunks = <<>>)

\* a text of 3 characters in windows of 2: two chunks, the last one short
C11_Witness ==
    /\ ret.op = "chunkText" /\ ret.kind = "value"
    /\ Len(ret.args[1]) = 3 /\ ret.args[2] = 2
    /\ Len(ret.val) = 2 /\ Len(ret.val[2].chunk) = 1

(***************************************************************************)
(* Properties of the embedder.                                             *)
(***************************************************************************)
EmbeddingReturned == ret.op = "generateEmbedding" /\ ret.kind = "value"

\* the number of maximal runs of non-whitespace characters: the positions
\* at which such a run starts
WordRuns(text) ==
    Cardinality({i \in 1..Len(text) :
                    /\ text[i] \notin WhiteSpace
                    /\ (i = 1 \/ text[i - 1] \in WhiteSpace)})

\* C12: component 1 of the embedding is the number of maximal runs of
\* non-whitespace characters of the text, divided by 10: 0 for the empty
\* text and for a text of whitespace only, and whitespace at the start or
\* at the end of the text adds no word.
C12_WordCountIsNonWhitespaceRuns ==
    EmbeddingReturned => ret.val[1] = Rat(WordRuns(ret.args[1]), 10)

\* the empty text has been embedded and component 1 is 1/10: split gave
\* one (empty) word
C12_EmptyTextCountsOneWord ==
    /\ EmbeddingReturned
    /\ ret.args[1] = <<>>
    /\ ret.val[1] = Rat(1, 10)

\* C13: component 8 of the embedding is the number of the letters A-Z in
\* the text as given, divided by the length of the text, hence above 0 when
\* the text has such a letter; it is 0 for the empty text.
C13_UppercaseRatioOfOriginalText ==
    EmbeddingReturned =>
        LET text == ret.args[1]
        IN  /\ ret.val[8] = IF Len(text) = 0 THEN R(0)
                            ELSE Rat(CountIn(text, UpperCase), Len(text))
            /\ CountIn(text, UpperCase) > 0 => RCmp(ret.val[8], R(0)) > 0

\* the text "B" has been embedded and component 8 is 0: the letters A-Z
\* were counted after toLowerCase
C13_UppercaseTextHasRatioZero ==
    /\ EmbeddingReturned
    /\ ret.args[1] = <<"B">>
    /\ ret.val[8] = R(0)

(***************************************************************************)
(* Frame properties of the store.                                          *)
(***************************************************************************)
ReadOps == {"getDocument", "getAllDocuments", "getStats", "search", "searchByDistance"}

Records(docs) == {docs[i] : i \in 1..Len(docs)}

\* what add was called with to create the record
Issue(doc) ==
    [id |-> doc.id, text |-> doc.text, embedding |-> doc.embedding,
     metadata |-> doc.metadata]

\* C14: get, list, stats, search and searchByDistance, returning or
\* throwing, leave the records and the id counter as they were; add keeps
\* every record it found, delete keeps every record but the one with the
\* given id, and no step but clear puts a different record under an id that
\* was in use; so each stored record still has the id, text, embedding and
\* metadata its add was called with.
C14_ReadsAndOtherRecordsUntouched ==
    [][/\ ret'.op \in ReadOps => documents' = documents /\ nextId' = nextId
       /\ ret'.op = "addDocument" =>
             SubSeq(documents', 1, Len(documents)) = documents
       /\ ret'.op = "deleteDocument" =>
             \A d \in Records(documents) :
                 d.id # ret'.args[1] => d \in Records(documents')
       /\ ret'.op # "clear" =>
             \A d \in Records(documents') :
                 d.id \in Ids(documents) => d \in Records(documents)
       /\ \A d \in Records(documents') : Issue(d) \in issued']_vars

\* add, add, delete(2), add, then a searchByDistance that threw on the
\* record of another dimensionality: records 1 and 3 are still stored
C14_Witness ==
    /\ ret.op = "searchByDistance" /\ ret.kind = "throw"
    /\ Ids(documents) = {1, 3}
    /\ nextId = 4

==========================================================================
